---- MODULE Spec2Model ----
(***************************************************************************)
(* Model of src/app.py: a Flask service with the module-level start-up     *)
(* code (API_KEY, MODEL_TO_USE, model), the handler of GET /check and the  *)
(* handler of POST /api/execute with its call to the Gemini model.         *)
(*                                                                         *)
(* Strings are sequences of characters, so that str.strip() is computed    *)
(* and not assumed.  JSON values are records tagged with their Python      *)
(* type, so that Python truthiness, isinstance and attribute lookup are    *)
(* computed as the interpreter computes them.                              *)
(***************************************************************************)
EXTENDS Integers, Sequences, FiniteSets, TLC

\* ---------------------------------------------------------------- bounds
NumReq == 2      \* requests in flight or finished
MaxLen == 2      \* longest string of a query

Requests == 1..NumReq

\* ------------------------------------------------------------- strings
Whitespace == {" "}
Chars == {"a", " "}
Strings == UNION {[1..n -> Chars] : n \in 0..MaxLen}

RECURSIVE LStrip(_)
LStrip(s) == IF s = <<>> THEN s
             ELSE IF Head(s) \in Whitespace THEN LStrip(Tail(s)) ELSE s

RECURSIVE RStrip(_)
RStrip(s) == IF s = <<>> THEN s
             ELSE IF s[Len(s)] \in Whitespace
                  THEN RStrip(SubSeq(s, 1, Len(s) - 1)) ELSE s

\* str.strip() with no argument
Strip(s) == RStrip(LStrip(s))

\* --------------------------------------------------------- JSON values
\* t is the Python type of the parsed value; n is the number for "num"
\* and the number of elements or keys for "list" and "obj".
JVal(t, s, n, b) == [t |-> t, s |-> s, n |-> n, b |-> b]
JNull == JVal("null", <<>>, 0, FALSE)
JBool(b) == JVal("bool", <<>>, 0, b)
JNum(n) == JVal("num", <<>>, n, FALSE)
JStr(s) == JVal("str", s, 0, FALSE)
JList(n) == JVal("list", <<>>, n, FALSE)
JObj(n) == JVal("obj", <<>>, n, FALSE)

\* the values the `query` key can hold
QueryValues ==
    {JNull, JBool(FALSE), JBool(TRUE), JNum(0), JNum(5),
     JList(0), JList(1), JObj(0), JObj(1)} \cup {JStr(s) : s \in Strings}

\* a top-level JSON document: a value plus, for an object, its `query` key
Doc(v, hasQuery, query) ==
    [t |-> v.t, s |-> v.s, n |-> v.n, b |-> v.b,
     hasQuery |-> hasQuery, query |-> query]

Documents ==
    {Doc(v, FALSE, JNull) :
        v \in {JNull, JBool(FALSE), JBool(TRUE), JNum(0), JNum(5),
               JStr(<<>>), JStr(<<"a">>), JList(0), JList(1),
               JObj(0), JObj(1)}}
    \cup {Doc(JObj(1), TRUE, q) : q \in QueryValues}

\* a request body as sent: it parses as JSON to a document, or it does not
Malformed == [parses |-> FALSE, data |-> Doc(JNull, FALSE, JNull)]
Bodies == {Malformed} \cup {[parses |-> TRUE, data |-> d] : d \in Documents}

\* Python truthiness of a parsed value
Truthy(v) ==
    CASE v.t = "null" -> FALSE
      [] v.t = "bool" -> v.b
      [] v.t = "num"  -> v.n # 0
      [] v.t = "str"  -> v.s # <<>>
      [] v.t = "list" -> v.n > 0
      [] v.t = "obj"  -> v.n > 0

\* ------------------------------------------------------ module globals
None == "None"
GenerativeModel == "GenerativeModel"

KeyStates == {"absent", "empty", "set"}      \* os.environ.get("GOOGLE_API_KEY")
ModelNames == {"gemini-2.5-flash"}

\* the names bound in the handler's except clauses
APIError == "APIError"
Exception == "Exception"

VARIABLES
    API_KEY,        \* the credential read at import time
    configRaised,   \* whether genai.configure / GenerativeModel raised
    MODEL_TO_USE,   \* the model identifier
    model,          \* None or the GenerativeModel instance
    pc,             \* per request: "idle", "calling", "done"
    endpoint,       \* per request: "none", "check", "execute"
    body,           \* per request: the body as sent
    prompt,         \* per request: the prompt passed to generate_content
    calls,          \* per request: number of generate_content calls
    outcome,        \* per request: what generate_content did
    response,       \* per request: the response sent
    sent,           \* per request: number of responses sent
    logged          \* per request: the line printed by an except clause

vars == <<API_KEY, configRaised, MODEL_TO_USE, model, pc, endpoint, body,
          prompt, calls, outcome, response, sent, logged>>

\* ---------------------------------------------------------- start-up
\* lines 15-32: model is configured only with a non-empty key, and any
\* exception of the configuration leaves model = None
StartupModel_NoKeyCheck(key, raised) ==
    IF raised THEN None ELSE GenerativeModel

StartupModel(key, raised) ==
    IF key = "set"
    THEN IF raised THEN None ELSE GenerativeModel
    ELSE None

\* ------------------------------------------------------------ messages
\* a message is a sequence of parts: fixed text, then interpolated detail
NotInitializedMsg == <<"AI service not initialized. Check API key configuration.">>
InvalidPayloadMsg == <<"Invalid or missing JSON payload.">>
MissingQueryMsg == <<"Missing or empty \"query\" field in the request.">>
ApiErrorPrefix == "AI Service Unavailable or request error: "
InternalErrorMsg == <<"An unexpected internal server error occurred.">>
UninitializedExcMsg == "AI model failed to initialize due to missing or invalid API key."

\* what the generator can return or raise
Texts == {<<"a">>, <<" ", "a", " ">>}
ApiDetails == {"429 rate limit"}
OtherDetails == {"connection reset"}

\* ----------------------------------------------------------- responses
NoResponse ==
    [status |-> 0, kind |-> "none", envelope |-> "none", success |-> FALSE,
     result |-> <<>>, error |-> <<>>, health |-> "", message |-> "",
     modelId |-> ""]

\* jsonify({'error': msg}), status
ErrorResponse(msg, status) ==
    [NoResponse EXCEPT !.status = status, !.kind = "json",
                       !.envelope = "error", !.error = msg]

\* jsonify({'success': True, 'result': result}), default status 200
SuccessResponse_Stripped(result) ==
    [NoResponse EXCEPT !.status = 200, !.kind = "json",
                       !.envelope = "success", !.success = TRUE,
                       !.result = Strip(result)]

SuccessResponse(result) ==
    [NoResponse EXCEPT !.status = 200, !.kind = "json",
                       !.envelope = "success", !.success = TRUE,
                       !.result = result]

\* an exception that leaves the view function: Flask answers with its own
\* 500 page, which is not one of the handler's envelopes
UnhandledResponse ==
    [NoResponse EXCEPT !.status = 500, !.kind = "html"]

NotInitializedResponse == ErrorResponse(NotInitializedMsg, 503)

InvalidPayloadResponse_422 == ErrorResponse(InvalidPayloadMsg, 422)

InvalidPayloadResponse == ErrorResponse(InvalidPayloadMsg, 400)

MissingQueryResponse == ErrorResponse(MissingQueryMsg, 400)

ApiErrorResponse(detail) == ErrorResponse(<<ApiErrorPrefix, detail>>, 503)

InternalErrorResponse_Detail(detail) ==
    ErrorResponse(InternalErrorMsg \o <<detail>>, 500)

InternalErrorResponse(detail) == ErrorResponse(InternalErrorMsg, 500)

\* ------------------------------------------------------------- /check
check_AlwaysOk(m, name) ==
    [NoResponse EXCEPT !.status = 200, !.kind = "json",
                       !.envelope = "health", !.health = "ok",
                       !.message = "backend is running", !.modelId = name]

check(m, name) ==
    LET status_code == IF m = None THEN 503 ELSE 200
        message == IF m = None
                   THEN "backend is running, but AI model failed to initialize."
                   ELSE "backend is running"
    IN [NoResponse EXCEPT !.status = status_code, !.kind = "json",
                          !.envelope = "health",
                          !.health = IF status_code = 200 THEN "ok" ELSE "error",
                          !.message = message, !.modelId = name]

\* -------------------------------------------------------- /api/execute
\* request.get_json(silent=True): None when the body does not parse
get_json(raw) == IF raw.parses THEN raw.data ELSE Doc(JNull, FALSE, JNull)

\* data.get('query') on a dict
DictGet(data) == IF data.hasQuery THEN data.query ELSE JNull

\* line 113
QueryRejected_NoStrip(query) ==
    \/ ~Truthy(query)
    \/ query.t # "str"

QueryRejected(query) ==
    \/ ~Truthy(query)
    \/ query.t # "str"
    \/ Strip(query.s) = <<>>

\* lines 51-73: the f-string
PromptHead == <<"\nYou are a smart shopping assistant.\n\nITEM CONTEXT: ">>
PromptTail == <<"\n\nTASK:\n1) Analyze factors: ... Return in readable, structured format.\n">>

RenderPrompt_Stripped(query) == PromptHead \o Strip(query) \o PromptTail

RenderPrompt(query) == PromptHead \o query \o PromptTail

\* lines 44-74 up to the call: raise, or call generate_content(prompt)
execute_will_i_regret_buying(m, query) ==
    IF m = None
    THEN [kind |-> "raise", exc |-> Exception, prompt |-> <<>>]
    ELSE [kind |-> "call", exc |-> "", prompt |-> RenderPrompt(query)]

\* lines 101-119 up to the call of the generator: what the handler does
\* with the body before anything is sent out
ExecuteEntry(m, raw) ==
    IF m = None
    THEN [kind |-> "return", resp |-> NotInitializedResponse, prompt |-> <<>>]
    ELSE LET data == get_json(raw) IN
         IF ~Truthy(data)
         THEN [kind |-> "return", resp |-> InvalidPayloadResponse, prompt |-> <<>>]
         ELSE IF data.t # "obj"
         THEN \* data.get raises AttributeError outside the try block
              [kind |-> "escape", resp |-> UnhandledResponse, prompt |-> <<>>]
         ELSE LET query == DictGet(data) IN
              IF QueryRejected(query)
              THEN [kind |-> "return", resp |-> MissingQueryResponse, prompt |-> <<>>]
              ELSE LET g == execute_will_i_regret_buying(m, query.s) IN
                   IF g.kind = "raise"
                   THEN [kind |-> "return",
                         resp |-> InternalErrorResponse(UninitializedExcMsg),
                         prompt |-> <<>>]
                   ELSE [kind |-> "call", resp |-> NoResponse, prompt |-> g.prompt]

NoOutcome == [kind |-> "none", text |-> <<>>, detail |-> ""]

TextOutcome(t) == [kind |-> "text", text |-> t, detail |-> ""]
RaiseOutcome(exc, d) == [kind |-> exc, text |-> <<>>, detail |-> d]

NoLog == <<>>

\* ---------------------------------------------------------------- Init
\* the state once the module has been imported and no request has come
Init ==
    /\ API_KEY \in KeyStates
    /\ configRaised \in BOOLEAN
    /\ MODEL_TO_USE \in ModelNames
    /\ model = StartupModel(API_KEY, configRaised)
    /\ pc = [r \in Requests |-> "idle"]
    /\ endpoint = [r \in Requests |-> "none"]
    /\ body = [r \in Requests |-> Malformed]
    /\ prompt = [r \in Requests |-> <<>>]
    /\ calls = [r \in Requests |-> 0]
    /\ outcome = [r \in Requests |-> NoOutcome]
    /\ response = [r \in Requests |-> NoResponse]
    /\ sent = [r \in Requests |-> 0]
    /\ logged = [r \in Requests |-> NoLog]

Globals == <<API_KEY, configRaised, MODEL_TO_USE, model>>

\* ------------------------------------------------------------- actions
\* GET /check, lines 79-96
Check(r) ==
    /\ pc[r] = "idle"
    /\ pc' = [pc EXCEPT ![r] = "done"]
    /\ endpoint' = [endpoint EXCEPT ![r] = "check"]
    /\ response' = [response EXCEPT ![r] = check(model, MODEL_TO_USE)]
    /\ sent' = [sent EXCEPT ![r] = @ + 1]
    /\ UNCHANGED <<Globals, body, prompt, calls, outcome, logged>>

\* POST /api/execute, lines 100-119: from the arrival of the request to a
\* response, or to the call model.generate_content(prompt) at line 74
Execute(r, raw) ==
    /\ pc[r] = "idle"
    /\ LET e == ExecuteEntry(model, raw) IN
       /\ endpoint' = [endpoint EXCEPT ![r] = "execute"]
       /\ body' = [body EXCEPT ![r] = raw]
       /\ IF e.kind = "call"
          THEN /\ pc' = [pc EXCEPT ![r] = "calling"]
               /\ prompt' = [prompt EXCEPT ![r] = e.prompt]
               /\ calls' = [calls EXCEPT ![r] = @ + 1]
               /\ UNCHANGED <<response, sent>>
          ELSE /\ pc' = [pc EXCEPT ![r] = "done"]
               /\ response' = [response EXCEPT ![r] = e.resp]
               /\ sent' = [sent EXCEPT ![r] = @ + 1]
               /\ UNCHANGED <<prompt, calls>>
    /\ UNCHANGED <<Globals, outcome, logged>>

\* lines 74-75 and 119-121: generate_content returns, response.text is t
GenerateText(r, t) ==
    /\ pc[r] = "calling"
    /\ pc' = [pc EXCEPT ![r] = "done"]
    /\ outcome' = [outcome EXCEPT ![r] = TextOutcome(t)]
    /\ response' = [response EXCEPT ![r] = SuccessResponse(t)]
    /\ sent' = [sent EXCEPT ![r] = @ + 1]
    /\ UNCHANGED <<Globals, endpoint, body, prompt, calls, logged>>

\* a handler that calls the generator again after an APIError
GenerateAPIError_Retry(r, d) ==
    /\ pc[r] = "calling"
    /\ calls[r] < 2
    /\ calls' = [calls EXCEPT ![r] = @ + 1]
    /\ outcome' = [outcome EXCEPT ![r] = RaiseOutcome(APIError, d)]
    /\ logged' = [logged EXCEPT ![r] = <<"Gemini API Error: ", d>>]
    /\ UNCHANGED <<Globals, pc, endpoint, body, prompt, response, sent>>

\* lines 123-127: generate_content raises APIError
GenerateAPIError(r, d) ==
    /\ pc[r] = "calling"
    /\ pc' = [pc EXCEPT ![r] = "done"]
    /\ outcome' = [outcome EXCEPT ![r] = RaiseOutcome(APIError, d)]
    /\ logged' = [logged EXCEPT ![r] = <<"Gemini API Error: ", d>>]
    /\ response' = [response EXCEPT ![r] = ApiErrorResponse(d)]
    /\ sent' = [sent EXCEPT ![r] = @ + 1]
    /\ UNCHANGED <<Globals, endpoint, body, prompt, calls>>

\* a handler that marks the service as down after an unexpected failure
GenerateException_DropModel(r, d) ==
    /\ pc[r] = "calling"
    /\ pc' = [pc EXCEPT ![r] = "done"]
    /\ outcome' = [outcome EXCEPT ![r] = RaiseOutcome(Exception, d)]
    /\ logged' = [logged EXCEPT ![r] = <<"Internal Server Error: ", d>>]
    /\ response' = [response EXCEPT ![r] = InternalErrorResponse(d)]
    /\ sent' = [sent EXCEPT ![r] = @ + 1]
    /\ model' = None
    /\ UNCHANGED <<API_KEY, configRaised, MODEL_TO_USE, endpoint, body,
                   prompt, calls>>

\* lines 129-132: generate_content or response.text raises anything else
GenerateException(r, d) ==
    /\ pc[r] = "calling"
    /\ pc' = [pc EXCEPT ![r] = "done"]
    /\ outcome' = [outcome EXCEPT ![r] = RaiseOutcome(Exception, d)]
    /\ logged' = [logged EXCEPT ![r] = <<"Internal Server Error: ", d>>]
    /\ response' = [response EXCEPT ![r] = InternalErrorResponse(d)]
    /\ sent' = [sent EXCEPT ![r] = @ + 1]
    /\ UNCHANGED <<Globals, endpoint, body, prompt, calls>>

Next ==
    \/ \E r \in Requests : Check(r)
    \/ \E r \in Requests, raw \in Bodies : Execute(r, raw)
    \/ \E r \in Requests, t \in Texts : GenerateText(r, t)
    \/ \E r \in Requests, d \in ApiDetails : GenerateAPIError(r, d)
    \/ \E r \in Requests, d \in OtherDetails : GenerateException(r, d)

Spec == Init /\ [][Next]_vars

TypeOK ==
    /\ API_KEY \in KeyStates
    /\ model \in {None, GenerativeModel}
    /\ \A r \in Requests :
        /\ pc[r] \in {"idle", "calling", "done"}
        /\ endpoint[r] \in {"none", "check", "execute"}
        /\ body[r] \in Bodies
        /\ calls[r] \in 0..2
        /\ sent[r] \in 0..2

\* ------------------------------------------------------------- claims
Executes(r) == endpoint[r] = "execute"
Done(r) == pc[r] = "done" /\ endpoint[r] = "execute"
Initialized == model # None

\* the body is a JSON object with a string `query`, non-empty once trimmed
ValidQuery(raw) ==
    /\ raw.parses
    /\ raw.data.t = "obj"
    /\ raw.data.hasQuery
    /\ raw.data.query.t = "str"
    /\ Strip(raw.data.query.s) # <<>>

\* the body is a JSON object whose `query` is absent, not a string, empty
\* or made of whitespace only
InvalidQuery(raw) ==
    /\ raw.parses
    /\ raw.data.t = "obj"
    /\ \/ ~raw.data.hasQuery
       \/ raw.data.query.t # "str"
       \/ \A i \in 1..Len(raw.data.query.s) : raw.data.query.s[i] \in Whitespace

\* start-up left the service without a model: no credential, or the
\* configuration raised
Uninitialized == API_KEY \in {"absent", "empty"} \/ configRaised

\* C1: a request with a valid query, an initialized model and a generator
\* that returns text T always reaches the generator and is answered with
\* status 200 and the envelope {success: true, result: T}, result being T.
C1_SuccessEnvelope ==
    \A r \in Requests :
        (Done(r) /\ ValidQuery(body[r]) /\ Initialized) =>
            /\ outcome[r].kind # "none"
            /\ outcome[r].kind = "text" =>
                /\ response[r].status = 200
                /\ response[r].kind = "json"
                /\ response[r].envelope = "success"
                /\ response[r].success = TRUE
                /\ response[r].result = outcome[r].text

C1_Witness ==
    \E r \in Requests :
        /\ Done(r) /\ ValidQuery(body[r]) /\ Initialized
        /\ outcome[r] = TextOutcome(<<" ", "a", " ">>)
        /\ response[r].status = 200

C3_UninitializedFailsFast ==
    Uninitialized =>
        \A r \in Requests :
            Executes(r) =>
                /\ calls[r] = 0
                /\ pc[r] = "done"
                /\ response[r].status = 503
                /\ response[r].kind = "json"
                /\ response[r].envelope = "error"
                /\ response[r].error = NotInitializedMsg

C3_Witness ==
    /\ API_KEY = "absent"
    /\ \E r \in Requests :
        /\ Done(r) /\ ValidQuery(body[r])
        /\ response[r].status = 503

\* C4: every POST /api/execute ends with a JSON envelope, {success, result}
\* or {error}, and one of the statuses 200, 400, 503, 500; no failure
\* leaves the handler uncaught.
C4_AllFailuresCaught ==
    \A r \in Requests :
        Done(r) =>
            /\ response[r].kind = "json"
            /\ response[r].envelope \in {"success", "error"}
            /\ response[r].status \in {200, 400, 503, 500}

\* C5: a generator call that raises an upstream API error is answered with
\* status 503 and a message other than the generic one; any other failure
\* is answered with status 500 and the generic message, which holds
\* nothing of the failure's detail.
C5_GenerationFailure ==
    \A r \in Requests :
        Done(r) =>
            /\ outcome[r].kind = APIError =>
                /\ response[r].status = 503
                /\ response[r].envelope = "error"
                /\ response[r].error # InternalErrorMsg
            /\ outcome[r].kind = Exception =>
                /\ response[r].status = 500
                /\ response[r].envelope = "error"
                /\ response[r].error = InternalErrorMsg
                /\ \A i \in 1..Len(response[r].error) :
                       response[r].error[i] # outcome[r].detail

C5_Witness ==
    \E r1, r2 \in Requests :
        /\ Done(r1) /\ outcome[r1].kind = APIError /\ response[r1].status = 503
        /\ Done(r2) /\ outcome[r2].kind = Exception /\ response[r2].status = 500

\* C6 as stated: a body that does not parse as JSON is answered with
\* status 400 and an {error} envelope, and the generator is not called.
C6_Original ==
    \A r \in Requests :
        (Done(r) /\ ~body[r].parses) =>
            /\ response[r].status = 400
            /\ response[r].envelope = "error"
            /\ calls[r] = 0

\* C6 as amended: such a body is answered with an {error} envelope and no
\* call of the generator; the status is 400 when the model is initialized
\* and 503 when it is not.
C6_MalformedRejected ==
    \A r \in Requests :
        (Executes(r) /\ ~body[r].parses) =>
            /\ calls[r] = 0
            /\ pc[r] = "done"
            /\ response[r].kind = "json"
            /\ response[r].envelope = "error"
            /\ Initialized => response[r].status = 400
            /\ ~Initialized => response[r].status = 503

C6_Witness ==
    \E r \in Requests :
        /\ Done(r) /\ ~body[r].parses /\ Initialized
        /\ response[r] = ErrorResponse(InvalidPayloadMsg, 400)

\* C7: GET /check answers 200 and "ok" exactly when the model is
\* initialized and 503 and "error" exactly when it is not, always with
\* the configured model identifier and without a call of the generator.
C7_HealthCheck ==
    \A r \in Requests :
        (pc[r] = "done" /\ endpoint[r] = "check") =>
            /\ response[r].status \in {200, 503}
            /\ response[r].status = 200 <=> Initialized
            /\ response[r].status = 200 <=> response[r].health = "ok"
            /\ response[r].status = 503 <=> response[r].health = "error"
            /\ Initialized <=> ~Uninitialized
            /\ response[r].modelId = MODEL_TO_USE
            /\ response[r].modelId = "gemini-2.5-flash"
            /\ calls[r] = 0
            /\ prompt[r] = <<>>

C7_Witness ==
    \E r1, r2 \in Requests :
        /\ pc[r1] = "done" /\ endpoint[r1] = "check"
        /\ response[r1].status = 503 /\ response[r1].health = "error"
        /\ Done(r2) /\ response[r2].status = 503

\* C8: a request calls the generator at most once, whatever the call
\* does, and gets exactly one response: none before it is done, one after.
C8_NoRetry ==
    \A r \in Requests :
        /\ calls[r] <= 1
        /\ pc[r] = "done" => sent[r] = 1
        /\ pc[r] # "done" => sent[r] = 0
        /\ outcome[r].kind # "none" => calls[r] = 1

C8_Witness ==
    \E r1, r2 \in Requests :
        /\ Done(r1) /\ outcome[r1].kind = APIError /\ calls[r1] = 1 /\ sent[r1] = 1
        /\ Done(r2) /\ outcome[r2].kind = Exception /\ calls[r2] = 1 /\ sent[r2] = 1

\* two finished requests with the same body and the same generator outcome
\* got the same response, and the model is the one start-up made
C9_Independent ==
    /\ model = StartupModel(API_KEY, configRaised)
    /\ \A r1, r2 \in Requests :
        (Done(r1) /\ Done(r2) /\ body[r1] = body[r2]
            /\ outcome[r1] = outcome[r2]) => response[r1] = response[r2]

\* C9: no step of any request changes the model, the model identifier or
\* the credential, and a response depends only on the request's body, the
\* start-up state and the generator's outcome for that request.
C9_ReadOnlyConfig ==
    /\ []C9_Independent
    /\ [][/\ model' = model
          /\ MODEL_TO_USE' = MODEL_TO_USE
          /\ API_KEY' = API_KEY]_vars

C9_Witness ==
    \E r1, r2 \in Requests :
        /\ r1 # r2 /\ Done(r1) /\ Done(r2)
        /\ body[r1] = body[r2]
        /\ outcome[r1].kind = Exception
        /\ outcome[r2].kind = "text"
        /\ Initialized

\* C10: the prompt passed to the generator is the template with the query
\* as received in its place, untrimmed, and the generator's text is the
\* result of the response, unmodified.
C10_Verbatim ==
    \A r \in Requests :
        /\ calls[r] >= 1 =>
            prompt[r] = PromptHead \o body[r].data.query.s \o PromptTail
        /\ (Done(r) /\ outcome[r].kind = "text") =>
            response[r].result = outcome[r].text

C10_Witness ==
    \E r \in Requests :
        /\ Done(r)
        /\ body[r].data.query = JStr(<<" ", "a">>)
        /\ prompt[r] = PromptHead \o <<" ", "a">> \o PromptTail
        /\ outcome[r] = TextOutcome(<<" ", "a", " ">>)
        /\ response[r].result = <<" ", "a", " ">>

====
